---- MODULE Spec2Model ----
(***************************************************************************)
(* Model of utils/scoring.py: the Minguo calendar helpers                  *)
(* (minguo_to_gregorian, add_years, subtract_days), the expiry / notice    *)
(* calculator (compute_expiry_and_notice) and the points evaluator         *)
(* (evaluate_points).                                                      *)
(*                                                                         *)
(* Python values are modelled as follows.                                  *)
(*   - a str is a sequence of one-character strings;                       *)
(*   - a dict is a function whose DOMAIN is the set of keys present, so    *)
(*     that d.get(k, default) and d[k] (KeyError) can be told apart;       *)
(*   - a value whose Python type matters (the argument of                  *)
(*     minguo_to_gregorian, every return value) is a record with a "type"  *)
(*     field; a raised exception is the value Raised(name).                *)
(* Every call is one action: it draws its arguments, runs the whole        *)
(* function and leaves the arguments in `arg` and the outcome in `ret`.    *)
(***************************************************************************)
EXTENDS Integers, Sequences, FiniteSets, TLC

VARIABLES RULES, op, arg, ret

vars == <<RULES, op, arg, ret>>

(***************************************************************************)
(* Python values                                                           *)
(***************************************************************************)
None == [type |-> "NoneType"]

Str(s) == [type |-> "str", chars |-> s]

PyInt(n) == [type |-> "int", val |-> n]

Raised(e) == [type |-> "raised", error |-> e]

IsRaised(v) == v.type = "raised"

\* dict.get(key, default)
Get(dict, key, default) == IF key \in DOMAIN dict THEN dict[key] ELSE default

\* the empty dict
EmptyDict == [k \in {} |-> 0]

\* bool(x) of the values minguo_to_gregorian may be handed
Truthy(v) ==
    CASE v.type = "NoneType" -> FALSE
      [] v.type = "str" -> Len(v.chars) > 0
      [] v.type = "int" -> v.val # 0
      [] OTHER -> TRUE

Min(a, b) == IF a <= b THEN a ELSE b

(***************************************************************************)
(* Program constants                                                       *)
(***************************************************************************)
\* y = int(parts[0]) + 1911
EpochOffset == 1911

\* datetime.MINYEAR, datetime.MAXYEAR
MINYEAR == 1

MAXYEAR == 9999

\* the largest C int: datetime(y, m, d) converts its arguments to C ints and
\* raises OverflowError past it
CIntMax == 2147483647

\* pass_mandatory_total = mandatory_total_raw >= 10
MandatoryTotalMin == 10

\* notice_date = expiry - timedelta(days = months * 30)
DaysPerMonth == 30

(***************************************************************************)
(* Strings: digits, padding, split and int()                               *)
(***************************************************************************)
DigitChars == <<"0", "1", "2", "3", "4", "5", "6", "7", "8", "9">>

IsDigit(c) == \E k \in 1..10 : DigitChars[k] = c

DigitVal(c) == (CHOOSE k \in 1..10 : DigitChars[k] = c) - 1

RECURSIVE DigitsOf(_)
\* str(n) for n >= 0
DigitsOf(n) ==
    IF n < 10 THEN <<DigitChars[n + 1]>>
    ELSE DigitsOf(n \div 10) \o <<DigitChars[(n % 10) + 1]>>

RECURSIVE ZeroPad(_, _)
\* the '%0<width>d' conversion of strftime
ZeroPad(s, width) == IF Len(s) >= width THEN s ELSE ZeroPad(<<"0">> \o s, width)

\* str.split(sep) for a one-character separator: the list of the fields
RECURSIVE Split(_, _)
Split(s, sep) ==
    IF \A i \in 1..Len(s) : s[i] # sep THEN <<s>>
    ELSE LET i == CHOOSE j \in 1..Len(s) :
                      s[j] = sep /\ \A k \in 1..(j - 1) : s[k] # sep
         IN  <<SubSeq(s, 1, i - 1)>> \o Split(SubSeq(s, i + 1, Len(s)), sep)

RECURSIVE StripLeft(_)
StripLeft(s) == IF Len(s) > 0 /\ s[1] = " " THEN StripLeft(Tail(s)) ELSE s

RECURSIVE StripRight(_)
StripRight(s) ==
    IF Len(s) > 0 /\ s[Len(s)] = " " THEN StripRight(SubSeq(s, 1, Len(s) - 1)) ELSE s

RECURSIVE DigitsValue(_)
DigitsValue(s) ==
    IF Len(s) = 0 THEN 0
    ELSE 10 * DigitsValue(SubSeq(s, 1, Len(s) - 1)) + DigitVal(s[Len(s)])

\* int(s) for a str s over the alphabet of the inputs (digits, '+', ' ', '-'
\* and letters): surrounding blanks are stripped, one leading '+' is
\* accepted, and what is left must be a nonempty run of digits.
ParseInt(s) ==
    LET t == StripRight(StripLeft(s))
        u == IF Len(t) > 0 /\ t[1] = "+" THEN Tail(t) ELSE t
    IN  IF Len(u) > 0 /\ \A i \in 1..Len(u) : IsDigit(u[i])
        THEN PyInt(DigitsValue(u))
        ELSE Raised("ValueError")

(***************************************************************************)
(* datetime: the proleptic Gregorian calendar of the standard library      *)
(***************************************************************************)
IsLeap(y) == y % 4 = 0 /\ (y % 100 # 0 \/ y % 400 = 0)

DaysInMonth(y, m) ==
    IF m = 2 THEN (IF IsLeap(y) THEN 29 ELSE 28)
    ELSE IF m \in {4, 6, 9, 11} THEN 30 ELSE 31

Date(y, m, d) == [type |-> "datetime", year |-> y, month |-> m, day |-> d]

\* datetime(y, m, d) for arguments that fit a C int
Datetime(y, m, d) ==
    IF y < MINYEAR \/ y > MAXYEAR THEN Raised("ValueError")
    ELSE IF m < 1 \/ m > 12 THEN Raised("ValueError")
    ELSE IF d < 1 \/ d > DaysInMonth(y, m) THEN Raised("ValueError")
    ELSE Date(y, m, d)

\* a <= b on datetimes: the comparison of (year, month, day)
DateLeq(a, b) ==
    \/ a.year < b.year
    \/ a.year = b.year /\ a.month < b.month
    \/ a.year = b.year /\ a.month = b.month /\ a.day <= b.day

DaysBeforeYear(y) ==
    (y - 1) * 365 + (y - 1) \div 4 - (y - 1) \div 100 + (y - 1) \div 400

RECURSIVE DaysBeforeMonth(_, _)
DaysBeforeMonth(y, m) ==
    IF m = 1 THEN 0 ELSE DaysBeforeMonth(y, m - 1) + DaysInMonth(y, m - 1)

\* date.toordinal(): 0001-01-01 is day 1
ToOrdinal(dt) == DaysBeforeYear(dt.year) + DaysBeforeMonth(dt.year, dt.month) + dt.day

\* date.fromordinal(n), as the library computes it from the 400-, 100-, 4-
\* and 1-year cycles
FromOrdinal(ordinal) ==
    LET n0 == ordinal - 1
        n400 == n0 \div 146097
        r400 == n0 % 146097
        n100 == r400 \div 36524
        r100 == r400 % 36524
        n4 == r100 \div 1461
        r4 == r100 % 1461
        n1 == r4 \div 365
        n == r4 % 365
        year == n400 * 400 + 1 + n100 * 100 + n4 * 4 + n1
    IN  IF n1 = 4 \/ n100 = 4 THEN Date(year - 1, 12, 31)
        ELSE LET month == CHOOSE m \in 1..12 :
                              /\ DaysBeforeMonth(year, m) <= n
                              /\ n < DaysBeforeMonth(year, m) + DaysInMonth(year, m)
             IN  Date(year, month, n - DaysBeforeMonth(year, month) + 1)

MaxOrdinal == 3652059

\* date - timedelta(days = n)
DateMinusDays(dt, n) ==
    LET o == ToOrdinal(dt) - n
    IN  IF o < 1 \/ o > MaxOrdinal THEN Raised("OverflowError") ELSE FromOrdinal(o)

\* date.replace(year = y, day = d)
Replace(dt, y, d) == Datetime(y, dt.month, d)

\* date.strftime('%Y-%m-%d')
Strftime(dt) ==
    ZeroPad(DigitsOf(dt.year), 4) \o <<"-">> \o ZeroPad(DigitsOf(dt.month), 2)
        \o <<"-">> \o ZeroPad(DigitsOf(dt.day), 2)

(***************************************************************************)
(* Date helper functions                                                   *)
(***************************************************************************)
minguo_to_gregorian(minguo_str) ==
    IF ~Truthy(minguo_str) \/ minguo_str.type # "str" THEN None
    ELSE LET parts == Split(minguo_str.chars, "-")
             p1 == ParseInt(parts[1])
             p2 == ParseInt(parts[2])
             p3 == ParseInt(parts[3])
         IN  IF Len(parts) # 3 THEN None
             ELSE IF IsRaised(p1) \/ IsRaised(p2) \/ IsRaised(p3) THEN None
             ELSE IF p2.val < 1 \/ p2.val > 12 \/ p3.val < 1 \/ p3.val > 31 THEN None
             \* y = int(parts[0]) + 1911 exceeds the C int range exactly when
             \* int(parts[0]) > CIntMax - 1911: OverflowError is none of the
             \* exceptions the handler catches
             ELSE IF p1.val > CIntMax - EpochOffset THEN Raised("OverflowError")
             ELSE LET dt == Datetime(p1.val + EpochOffset, p2.val, p3.val)
                  IN  IF IsRaised(dt) THEN None ELSE dt

\* add_years without the handler of the leap-day ValueError
add_years_unhandled(date, years) == Replace(date, date.year + years, date.day)

add_years(date, years) ==
    LET first == Replace(date, date.year + years, date.day)
    IN  IF IsRaised(first) THEN Replace(date, date.year + years, date.day - 1)
        ELSE first

subtract_days(date, days) == DateMinusDays(date, days)

(***************************************************************************)
(* evaluate_points: the category computations                              *)
(***************************************************************************)
RECURSIVE SumOver(_, _)
\* the sum of f[k] over the keys k of S
SumOver(f, S) ==
    IF S = {} THEN 0
    ELSE LET k == CHOOSE x \in S : TRUE IN f[k] + SumOver(f, S \ {k})

RECURSIVE SumSeq(_)
SumSeq(s) == IF Len(s) = 0 THEN 0 ELSE Head(s) + SumSeq(Tail(s))

\* qer_counted = min(qer_raw, totals['max_quality_ethics_regulation_counted'])
QerCounted(qer_raw, totals) ==
    Min(qer_raw, totals["max_quality_ethics_regulation_counted"])

\* pass_qer_each_non_zero
PassQerEachNonZero(record) ==
    /\ Get(record, "quality_points_raw", 0) > 0
    /\ Get(record, "ethics_points_raw", 0) > 0
    /\ Get(record, "regulation_points_raw", 0) > 0

\* the body of the loop over mandatory_rules.items(): mandatory_results
MandatoryResults(mand_inputs, mandatory_rules) ==
    [key \in DOMAIN mandatory_rules |->
        LET raw_val == Get(mand_inputs, key, 0)
        IN  [value |-> raw_val,
             passes |-> raw_val >= mandatory_rules[key]["min"],
             min_required |-> mandatory_rules[key]["min"]]]

\* mandatory_total_raw, accumulated by the same loop
MandatoryTotalRaw(mand_inputs, mandatory_rules) ==
    SumOver([key \in DOMAIN mandatory_rules |-> Get(mand_inputs, key, 0)],
            DOMAIN mandatory_rules)

\* pass_mandatory_each, cleared by the same loop
PassMandatoryEach(mandatory_results) ==
    \A key \in DOMAIN mandatory_results : mandatory_results[key]["passes"]

\* the total check with > in place of >=
PassMandatoryTotalStrict(mandatory_total_raw) == mandatory_total_raw > MandatoryTotalMin

\* pass_mandatory_total = mandatory_total_raw >= 10
PassMandatoryTotal(mandatory_total_raw) == mandatory_total_raw >= MandatoryTotalMin

\* the pre-cutover points counted without their cap
PreChangeCountedUncapped(pre_change_raw, im_rules) == pre_change_raw

\* pre_change_counted = min(pre_change_raw, im_rules['before']['max_counted'])
PreChangeCounted(pre_change_raw, im_rules) ==
    Min(pre_change_raw, im_rules["before"]["max_counted"])

\* yearly_ind_total + yearly_mul_total
YearlyTotalCounted(yearly_points_data) ==
    SumSeq([i \in 1..Len(yearly_points_data) |->
                Get(yearly_points_data[i], "indigenous", 0)])
    + SumSeq([i \in 1..Len(yearly_points_data) |->
                Get(yearly_points_data[i], "multicultural", 0)])

\* total_cultural_counted = pre_change_counted + yearly_total_counted
TotalCulturalCounted(pre_change_counted, yearly_total_counted) ==
    pre_change_counted + yearly_total_counted

\* the cutover comparison with < in place of <=
UsesOldRuleStrict(renewal_dt, rule_change_date) ==
    DateLeq(renewal_dt, rule_change_date) /\ renewal_dt # rule_change_date

\* if renewal_dt <= rule_change_date: the old rule applies
UsesOldRule(renewal_dt, rule_change_date) == DateLeq(renewal_dt, rule_change_date)

\* old rule: pass_cultural_overall = (pre_change_raw >= rule['min_required'])
PassOldRule(pre_change_raw, rule) == pre_change_raw >= rule["min_required"]

\* the yearly check with a missing value read as 1
PassYearlyCheckDefaultOne(yearly_points_data) ==
    ~\E i \in 1..Len(yearly_points_data) :
        \/ Get(yearly_points_data[i], "indigenous", 1) < 1
        \/ Get(yearly_points_data[i], "multicultural", 1) < 1

\* the yearly check with "and" in place of "or": a year fails only when it
\* lacks both kinds of points
PassYearlyCheckEither(yearly_points_data) ==
    ~\E i \in 1..Len(yearly_points_data) :
        /\ Get(yearly_points_data[i], "indigenous", 0) < 1
        /\ Get(yearly_points_data[i], "multicultural", 0) < 1

\* new rule: the loop that clears pass_yearly_check at the first failing year
PassYearlyCheck(yearly_points_data) ==
    ~\E i \in 1..Len(yearly_points_data) :
        \/ Get(yearly_points_data[i], "indigenous", 0) < 1
        \/ Get(yearly_points_data[i], "multicultural", 0) < 1

\* the f-strings of im_notes: which rule applied, the renewal date string
\* and the cutover string they embed
Notes(rule, renewal_date_str, im_rules) ==
    [rule |-> rule,
     renewal_date |-> renewal_date_str,
     rule_change_date_minguo |-> im_rules["rule_change_date_minguo"]]

\* the fixed text of the branch that cannot determine the rule
NotesUndetermined == [rule |-> "undetermined"]

\* "Determine Pass/Fail based on renewal date": [pass, notes], or the
\* exception the branch raises
CulturalVerdict(renewal_dt, rule_change_date, pre_change_raw, yearly_points_data, renewal_date_str, im_rules) ==
    IF renewal_dt.type = "datetime"
    THEN IF rule_change_date.type # "datetime" THEN Raised("TypeError")
         ELSE IF UsesOldRule(renewal_dt, rule_change_date)
         THEN IF "before" \notin DOMAIN im_rules
                 \/ "min_required" \notin DOMAIN im_rules["before"]
              THEN Raised("KeyError")
              ELSE [type |-> "verdict",
                    pass |-> PassOldRule(pre_change_raw, im_rules["before"]),
                    notes |-> Notes("old", renewal_date_str, im_rules)]
         ELSE IF "after" \notin DOMAIN im_rules THEN Raised("KeyError")
              ELSE [type |-> "verdict",
                    pass |-> PassYearlyCheck(yearly_points_data),
                    notes |-> Notes("new", renewal_date_str, im_rules)]
    ELSE [type |-> "verdict", pass |-> FALSE, notes |-> NotesUndetermined]

\* the total without the mandatory points
TotalCountedNoMandatory(prof, qer_counted, mandatory_total_raw, total_cultural_counted) ==
    prof + qer_counted + total_cultural_counted

\* total_counted = prof + qer_counted + mandatory_total_raw + total_cultural_counted
TotalCounted(prof, qer_counted, mandatory_total_raw, total_cultural_counted) ==
    prof + qer_counted + mandatory_total_raw + total_cultural_counted

\* physical_points = total_counted - online_raw
PhysicalPoints(total_counted, online_raw) == total_counted - online_raw

MandatoryKeys ==
    {"fire_safety", "emergency_response", "infection_control", "gender_sensitivity"}

(***************************************************************************)
(* Main calculation functions                                              *)
(***************************************************************************)
compute_expiry_and_notice(start_minguo) ==
    LET start == minguo_to_gregorian(start_minguo)
    IN  IF IsRaised(start) THEN start
        ELSE IF start.type = "NoneType" THEN None
        ELSE IF "validity_years" \notin DOMAIN RULES THEN Raised("KeyError")
        ELSE LET expiry == add_years(start, RULES["validity_years"])
             IN  IF IsRaised(expiry) THEN expiry
                 ELSE IF "renewal_notice_months" \notin DOMAIN RULES
                 THEN Raised("KeyError")
                 ELSE LET notice_date ==
                              DateMinusDays(expiry,
                                  RULES["renewal_notice_months"] * DaysPerMonth)
                      IN  IF IsRaised(notice_date) THEN notice_date
                          ELSE [type |-> "dict",
                                start |-> Strftime(start),
                                expiry |-> Strftime(expiry),
                                notice_date |-> Strftime(notice_date)]

\* evaluate_points once every lookup in RULES has succeeded and both dates
\* are resolved: the computations and the result structure
EvaluateResolved(record, totals, mandatory_rules, im_rules, renewal_dt, verdict) ==
    LET prof == Get(record, "professional_course", 0)
        qer_raw == Get(record, "quality_ethics_regulation", 0)
        qer_counted == QerCounted(qer_raw, totals)
        mand_inputs == Get(record, "mandatory", EmptyDict)
        mandatory_results == MandatoryResults(mand_inputs, mandatory_rules)
        mandatory_total_raw == MandatoryTotalRaw(mand_inputs, mandatory_rules)
        pre_change_raw == Get(record, "pre_change_cultural_points", 0)
        yearly_points_data == Get(record, "yearly_cultural_points", <<>>)
        pre_change_counted == PreChangeCounted(pre_change_raw, im_rules)
        yearly_total_counted == YearlyTotalCounted(yearly_points_data)
        total_cultural_counted ==
            TotalCulturalCounted(pre_change_counted, yearly_total_counted)
        online_raw == Get(record, "online_points", 0)
        online_capped == Min(online_raw, totals["max_online_points"])
        total_counted ==
            TotalCounted(prof, qer_counted, mandatory_total_raw, total_cultural_counted)
        physical_points == PhysicalPoints(total_counted, online_raw)
    IN  [type |-> "dict",
         breakdown |->
            [professional_course |-> [raw |-> prof],
             quality_ethics_regulation |-> [raw |-> qer_raw, counted |-> qer_counted],
             quality_raw |-> Get(record, "quality_points_raw", 0),
             ethics_raw |-> Get(record, "ethics_points_raw", 0),
             regulation_raw |-> Get(record, "regulation_points_raw", 0),
             mandatory |-> mandatory_results,
             mandatory_total_raw |-> mandatory_total_raw,
             indigenous_multicultural |->
                [pre_change_raw |-> pre_change_raw,
                 pre_change_counted |-> pre_change_counted,
                 yearly_total_raw |-> yearly_total_counted,
                 counted |-> total_cultural_counted],
             online_points_raw |-> online_raw,
             online_points_capped |-> online_capped,
             physical_points_derived |-> physical_points],
         total_counted |-> total_counted,
         passes |->
            [total |-> total_counted >= totals["min_total_points"],
             professional_min |-> prof >= totals["min_professional_course"],
             qer_min |-> qer_counted >= totals["min_quality_ethics_regulation"],
             qer_each_non_zero |-> PassQerEachNonZero(record),
             mandatory_fire |-> mandatory_results["fire_safety"]["passes"],
             mandatory_er |-> mandatory_results["emergency_response"]["passes"],
             mandatory_inf |-> mandatory_results["infection_control"]["passes"],
             mandatory_gen |-> mandatory_results["gender_sensitivity"]["passes"],
             mandatory_total |-> PassMandatoryTotal(mandatory_total_raw),
             mandatory_each_min |-> PassMandatoryEach(mandatory_results),
             indigenous_multicultural |-> verdict.pass,
             online_max |-> online_raw <= totals["max_online_points"],
             physical_min |->
                physical_points >=
                    totals["min_total_points"] - totals["max_online_points"]],
         notes |-> verdict.notes]

\* evaluate_points(record): every RULES[...] lookup raises KeyError on an
\* absent key, in the order the function performs them
evaluate_points(record) ==
    IF ~({"totals", "mandatory_categories", "indigenous_and_multicultural"}
            \subseteq DOMAIN RULES)
    THEN Raised("KeyError")
    ELSE
    LET totals == RULES["totals"]
        mandatory_rules == RULES["mandatory_categories"]
        im_rules == RULES["indigenous_and_multicultural"]
    IN
    IF "rule_change_date_minguo" \notin DOMAIN im_rules THEN Raised("KeyError")
    ELSE
    LET rule_change_date == minguo_to_gregorian(im_rules["rule_change_date_minguo"])
    IN
    IF IsRaised(rule_change_date) THEN rule_change_date
    ELSE IF ~({"max_quality_ethics_regulation_counted",
               "min_quality_ethics_regulation"} \subseteq DOMAIN totals)
    THEN Raised("KeyError")
    ELSE IF \E key \in DOMAIN mandatory_rules : "min" \notin DOMAIN mandatory_rules[key]
    THEN Raised("KeyError")
    ELSE
    LET renewal_date_str == Get(record, "renewal_date", None)
        renewal_dt == minguo_to_gregorian(renewal_date_str)
    IN
    IF IsRaised(renewal_dt) THEN renewal_dt
    ELSE IF "before" \notin DOMAIN im_rules
            \/ "max_counted" \notin DOMAIN im_rules["before"]
    THEN Raised("KeyError")
    ELSE
    LET verdict ==
            CulturalVerdict(renewal_dt, rule_change_date,
                            Get(record, "pre_change_cultural_points", 0),
                            Get(record, "yearly_cultural_points", <<>>),
                            renewal_date_str, im_rules)
    IN
    IF IsRaised(verdict) THEN verdict
    ELSE IF ~({"max_online_points", "min_total_points", "min_professional_course"}
                \subseteq DOMAIN totals)
    THEN Raised("KeyError")
    ELSE IF ~(MandatoryKeys \subseteq DOMAIN mandatory_rules) THEN Raised("KeyError")
    ELSE EvaluateResolved(record, totals, mandatory_rules, im_rules, renewal_dt, verdict)

(***************************************************************************)
(* Inputs: the rule sets scoring_rules.json may hold                       *)
(***************************************************************************)
\* 'YYY-MM-DD' of three numbers
MinguoStr(y, m, d) ==
    Str(ZeroPad(DigitsOf(y), 3) \o <<"-">> \o ZeroPad(DigitsOf(m), 2)
            \o <<"-">> \o ZeroPad(DigitsOf(d), 2))

RulesA ==
    [validity_years |-> 6,
     renewal_notice_months |-> 6,
     totals |->
        [min_total_points |-> 12,
         max_online_points |-> 4,
         min_professional_course |-> 2,
         min_quality_ethics_regulation |-> 1,
         max_quality_ethics_regulation_counted |-> 2],
     mandatory_categories |->
        [fire_safety |-> [min |-> 1],
         emergency_response |-> [min |-> 1],
         infection_control |-> [min |-> 1],
         gender_sensitivity |-> [min |-> 1]],
     indigenous_and_multicultural |->
        [rule_change_date_minguo |-> MinguoStr(112, 6, 2),
         before |-> [min_required |-> 2, max_counted |-> 3],
         after |-> [min_per_year_each |-> 1]]]

RulesB ==
    [validity_years |-> 4,
     renewal_notice_months |-> 3,
     totals |->
        [min_total_points |-> 8,
         max_online_points |-> 3,
         min_professional_course |-> 1,
         min_quality_ethics_regulation |-> 2,
         max_quality_ethics_regulation_counted |-> 3],
     mandatory_categories |->
        [fire_safety |-> [min |-> 2],
         emergency_response |-> [min |-> 1],
         infection_control |-> [min |-> 3],
         gender_sensitivity |-> [min |-> 1]],
     indigenous_and_multicultural |->
        [rule_change_date_minguo |-> MinguoStr(112, 12, 31),
         before |-> [min_required |-> 1, max_counted |-> 1],
         after |-> [min_per_year_each |-> 1]]]

\* the rule sets with every field the functions reference
RuleSets == {RulesA, RulesB}

\* dict d without key k
Without(d, k) == [x \in DOMAIN d \ {k} |-> d[x]]

\* dict d with d[k] replaced by v
With(d, k, v) == [x \in DOMAIN d |-> IF x = k THEN v ELSE d[x]]

\* rule sets in which one referenced field is absent
PartialRuleSets ==
    {Without(RulesA, k) :
        k \in {"validity_years", "renewal_notice_months", "totals",
               "mandatory_categories", "indigenous_and_multicultural"}}
    \cup {With(RulesA, "totals", Without(RulesA["totals"], k)) :
            k \in {"min_total_points", "max_quality_ethics_regulation_counted"}}
    \cup {With(RulesA, "mandatory_categories",
               Without(RulesA["mandatory_categories"], "fire_safety")),
          With(RulesA, "mandatory_categories",
               With(RulesA["mandatory_categories"], "gender_sensitivity", EmptyDict))}
    \cup {With(RulesA, "indigenous_and_multicultural",
               Without(RulesA["indigenous_and_multicultural"], k)) :
            k \in {"rule_change_date_minguo", "before", "after"}}

(***************************************************************************)
(* Inputs: the records handed to evaluate_points                           *)
(***************************************************************************)
\* the longest yearly_cultural_points sequence
MaxYears == 2

\* the most years add_years is asked to add
MaxAddYears == 4

\* the most days subtract_days is asked to subtract, besides the long spans
MaxDays == 2

\* the dicts over the keys of `choices`, key k absent or mapped to a value
\* of choices[k]
PartialDicts(choices) ==
    UNION {[K -> UNION {choices[k] : k \in K}] : K \in SUBSET DOMAIN choices}

Dicts(choices) ==
    {d \in PartialDicts(choices) : \A k \in DOMAIN d : d[k] \in choices[k]}

\* the sequences over S of length at most n
SeqsUpTo(S, n) == UNION {[1..k -> S] : k \in 0..n}

\* renewal_date: on and after both cutover dates, not a calendar date, a
\* year past the C int range
RenewalDates ==
    {MinguoStr(112, 6, 2), MinguoStr(112, 6, 3), MinguoStr(112, 12, 31),
     MinguoStr(113, 1, 1), MinguoStr(112, 2, 30),
     MinguoStr(CIntMax - EpochOffset + 1, 1, 1)}

DateParts == Dicts([renewal_date |-> RenewalDates])

BasicParts ==
    Dicts([professional_course |-> {0, 2, 5},
           quality_ethics_regulation |-> {1, 3, 4},
           quality_points_raw |-> {0, 1},
           ethics_points_raw |-> {1},
           regulation_points_raw |-> {1},
           online_points |-> {3, 4, 5}])

MandatoryParts ==
    {EmptyDict} \cup
    {[mandatory |-> m] : m \in Dicts([k \in MandatoryKeys |-> {0, 1, 3, 4}])}

YearEntries == Dicts([indigenous |-> {1, 2}, multicultural |-> {0, 1}])

CulturalParts ==
    {pre @@ yearly @@ date :
        pre \in Dicts([pre_change_cultural_points |-> {1, 2, 4}]),
        yearly \in {EmptyDict} \cup
                   {[yearly_cultural_points |-> y] : y \in SeqsUpTo(YearEntries, MaxYears)},
        date \in DateParts}

\* what the fields outside the group under study hold: nothing, or a
\* typical record (with a key the rule set does not know)
Backgrounds ==
    {EmptyDict,
     [professional_course |-> 2, quality_ethics_regulation |-> 3,
      quality_points_raw |-> 1, ethics_points_raw |-> 1,
      regulation_points_raw |-> 1, online_points |-> 5,
      mandatory |-> [fire_safety |-> 2, emergency_response |-> 1,
                     infection_control |-> 3, unknown_category |-> 7],
      pre_change_cultural_points |-> 4,
      yearly_cultural_points |-> <<[indigenous |-> 1, multicultural |-> 1]>>,
      renewal_date |-> MinguoStr(113, 1, 1)]}

\* the records: one group of fields ranges over all its values and
\* overrides those fields of a background
Records ==
    {part @@ background :
        part \in BasicParts \cup MandatoryParts \cup CulturalParts,
        background \in Backgrounds}

(***************************************************************************)
(* Inputs: the arguments of the date helpers                               *)
(***************************************************************************)
MinguoArgs ==
    {None, PyInt(0), PyInt(1130615), Str(<<>>)}
    \cup {MinguoStr(y, m, d) :
            y \in {1, 112, 113, MAXYEAR - EpochOffset, MAXYEAR - EpochOffset + 1,
                   CIntMax - EpochOffset, CIntMax - EpochOffset + 1},
            m \in {0, 1, 2, 6, 12, 13},
            d \in {0, 1, 2, 28, 29, 30, 31, 32}}
    \cup {Str(<<"1", "1", "3", "-", "0", "6">>),
          Str(<<"1", "1", "3", "-", "0", "6", "-", "1", "5", "-", "0", "1">>),
          Str(<<"1", "1", "3", "-", "0", "x", "-", "1", "5">>),
          Str(<<"1", "1", "3", "-", "-", "1", "5">>),
          Str(<<"1", "1", "3", "/", "0", "6", "/", "1", "5">>),
          Str(<<"+", "1", "1", "3", "-", "0", "6", "-", "1", "5">>),
          Str(<<" ", "1", "1", "3", "-", "0", "6", "-", "1", "5", " ">>),
          Str(<<"1", "1", "3", "-", "6", "-", "5">>)}

\* valid datetimes, among them leap days and the last representable years
Dates ==
    {dt \in {Date(y, m, d) :
                y \in {2023, 2024, 2096, MAXYEAR - 1},
                m \in 1..12,
                d \in {1, 28, 29, 30, 31}} :
        dt.day <= DaysInMonth(dt.year, dt.month)}

DaysArgs == (0..MaxDays) \cup {180, 366, 1461}

(***************************************************************************)
(* The state machine: one action per call                                  *)
(***************************************************************************)
\* the module is imported, RULES = json.load(f), and no call is in progress
Init ==
    /\ RULES \in RuleSets
    /\ op = "idle"
    /\ arg = None
    /\ ret = None

\* the same, for a scoring_rules.json that lacks a field
InitPartial ==
    /\ RULES \in PartialRuleSets
    /\ op = "idle"
    /\ arg = None
    /\ ret = None

MinguoToGregorian ==
    /\ op = "idle"
    /\ \E minguo_str \in MinguoArgs :
        /\ op' = "minguo_to_gregorian"
        /\ arg' = minguo_str
        /\ ret' = minguo_to_gregorian(minguo_str)
        /\ UNCHANGED RULES

AddYears ==
    /\ op = "idle"
    /\ \E date \in Dates, years \in 0..MaxAddYears :
        /\ op' = "add_years"
        /\ arg' = [date |-> date, years |-> years]
        /\ ret' = add_years(date, years)
        /\ UNCHANGED RULES

SubtractDays ==
    /\ op = "idle"
    /\ \E date \in Dates, days \in DaysArgs :
        /\ op' = "subtract_days"
        /\ arg' = [date |-> date, days |-> days]
        /\ ret' = subtract_days(date, days)
        /\ UNCHANGED RULES

ComputeExpiryAndNotice ==
    /\ op = "idle"
    /\ \E start_minguo \in MinguoArgs :
        /\ op' = "compute_expiry_and_notice"
        /\ arg' = start_minguo
        /\ ret' = compute_expiry_and_notice(start_minguo)
        /\ UNCHANGED RULES

EvaluatePoints ==
    /\ op = "idle"
    /\ \E record \in Records :
        /\ op' = "evaluate_points"
        /\ arg' = record
        /\ ret' = evaluate_points(record)
        /\ UNCHANGED RULES

\* the call returns to its caller: the functions keep no state between calls
Return ==
    /\ op # "idle"
    /\ op' = "idle"
    /\ arg' = None
    /\ ret' = None
    /\ UNCHANGED RULES

Next ==
    \/ MinguoToGregorian
    \/ AddYears
    \/ SubtractDays
    \/ ComputeExpiryAndNotice
    \/ EvaluatePoints
    \/ Return

Spec == Init /\ [][Next]_vars

SpecPartial == InitPartial /\ [][Next]_vars

(***************************************************************************)
(* Properties of evaluate_points                                           *)
(***************************************************************************)
\* evaluate_points has returned a result
Evaluated == op = "evaluate_points" /\ ret.type = "dict"

\* the fields of the record evaluated, absent ones read as zero or empty
ArgQerRaw == Get(arg, "quality_ethics_regulation", 0)

ArgMandatory == Get(arg, "mandatory", EmptyDict)

ArgPreChange == Get(arg, "pre_change_cultural_points", 0)

ArgYearly == Get(arg, "yearly_cultural_points", <<>>)

ArgOnline == Get(arg, "online_points", 0)

ArgMandatoryRaw(key) == Get(ArgMandatory, key, 0)

ArgIndigenous(i) == Get(ArgYearly[i], "indigenous", 0)

ArgMulticultural(i) == Get(ArgYearly[i], "multicultural", 0)

RECURSIVE ArgYearlyPoints(_)
\* the indigenous and multicultural points of the first n yearly entries
ArgYearlyPoints(n) ==
    IF n = 0 THEN 0
    ELSE ArgYearlyPoints(n - 1) + ArgIndigenous(n) + ArgMulticultural(n)

RulesBefore == RULES["indigenous_and_multicultural"]["before"]

\* the renewal date of the record and the cutover date of the rule set, as
\* day numbers (0 when the string yields no date)
DayNumber(v) ==
    LET dt == minguo_to_gregorian(v)
    IN  IF dt.type = "datetime" THEN ToOrdinal(dt) ELSE 0

RenewalDay == DayNumber(Get(arg, "renewal_date", None))

CutoverDay == DayNumber(RULES["indigenous_and_multicultural"]["rule_change_date_minguo"])

\* C1: for every record, whatever the rule set and the renewal date, the
\* result has total_counted = professional raw + QER raw capped at
\* max_quality_ethics_regulation_counted + the raw mandatory values of the
\* configured categories + (pre-cutover raw capped at before.max_counted +
\* the indigenous and multicultural points of every yearly entry), and
\* physical_points_derived = total_counted - online_points_raw.
C1_TotalIsSumOfComponents ==
    Evaluated =>
        /\ ret.total_counted =
              Get(arg, "professional_course", 0)
            + Min(ArgQerRaw, RULES["totals"]["max_quality_ethics_regulation_counted"])
            + SumOver([key \in DOMAIN RULES["mandatory_categories"] |->
                          ArgMandatoryRaw(key)],
                      DOMAIN RULES["mandatory_categories"])
            + (Min(ArgPreChange, RulesBefore["max_counted"])
               + ArgYearlyPoints(Len(ArgYearly)))
        /\ ret.breakdown.physical_points_derived = ret.total_counted - ArgOnline

\* every component is present, both caps bite and there are online points
C1_Witness ==
    /\ Evaluated
    /\ Get(arg, "professional_course", 0) > 0
    /\ ArgQerRaw > RULES["totals"]["max_quality_ethics_regulation_counted"]
    /\ ArgMandatoryRaw("fire_safety") > 0
    /\ ArgPreChange > RulesBefore["max_counted"]
    /\ Len(ArgYearly) = 2
    /\ ArgYearlyPoints(2) > 3
    /\ ArgOnline > 0

\* C2: when the renewal date parses to a date d and the cutover date is c,
\* the old rule decides the indigenous_multicultural flag iff d <= c and the
\* new rule decides it iff d > c (d = c is the old rule, d = c + 1 day the
\* new one).
C2_CutoverSelectsRule ==
    (Evaluated /\ RenewalDay > 0) =>
        /\ ret.notes.rule = "old" <=> RenewalDay <= CutoverDay
        /\ ret.notes.rule = "new" <=> RenewalDay > CutoverDay
        /\ RenewalDay <= CutoverDay =>
              (ret.passes.indigenous_multicultural
                  <=> ArgPreChange >= RulesBefore["min_required"])
        /\ RenewalDay > CutoverDay =>
              (ret.passes.indigenous_multicultural
                  <=> \A i \in 1..Len(ArgYearly) :
                          ArgIndigenous(i) >= 1 /\ ArgMulticultural(i) >= 1)

\* renewal on the cutover day itself, with a record the two rules judge
\* differently
C2_Witness ==
    /\ Evaluated
    /\ RenewalDay = CutoverDay
    /\ ret.notes.rule = "old"
    /\ ret.passes.indigenous_multicultural
    /\ \E i \in 1..Len(ArgYearly) : ArgMulticultural(i) < 1

\* C3: under the new rule (renewal date after the cutover date) the flag is
\* true iff every yearly entry has indigenous >= 1 and multicultural >= 1,
\* a missing value counting as 0; one failing entry anywhere makes it false
\* whatever the other entries and the pre-cutover raw value.
C3_NewRuleEveryYear ==
    (Evaluated /\ RenewalDay > CutoverDay) =>
        (ret.passes.indigenous_multicultural
            <=> \A i \in 1..Len(ArgYearly) :
                    ArgIndigenous(i) >= 1 /\ ArgMulticultural(i) >= 1)

\* [{indigenous: 1, multicultural: 1}, {indigenous: 1, multicultural: 0}]
\* with a pre-cutover raw value that meets the old minimum: the flag is false
C3_Witness ==
    /\ Evaluated
    /\ RenewalDay > CutoverDay
    /\ ArgYearly = <<[indigenous |-> 1, multicultural |-> 1],
                     [indigenous |-> 1, multicultural |-> 0]>>
    /\ ArgPreChange >= RulesBefore["min_required"]
    /\ ~ret.passes.indigenous_multicultural

\* C4 as stated: under the old rule (renewal date on or before the cutover
\* date) the flag is true iff the pre-cutover raw value >= before.min_required,
\* and the cultural counted value is the pre-cutover raw value capped at
\* before.max_counted, for every record, yearly entries or not.
C4_OldRuleCountedIsCappedPreChange ==
    (Evaluated /\ RenewalDay > 0 /\ RenewalDay <= CutoverDay) =>
        /\ ret.passes.indigenous_multicultural
              <=> ArgPreChange >= RulesBefore["min_required"]
        /\ ret.breakdown.indigenous_multicultural.counted
              = Min(ArgPreChange, RulesBefore["max_counted"])

\* C4 amended: under the old rule the flag is true iff the pre-cutover raw
\* value >= before.min_required; pre_change_counted is the pre-cutover raw
\* value capped at before.max_counted, and the cultural counted value is
\* that capped value plus the indigenous and multicultural points of every
\* yearly entry.
C4_OldRuleCountedAddsYearly ==
    (Evaluated /\ RenewalDay > 0 /\ RenewalDay <= CutoverDay) =>
        /\ ret.passes.indigenous_multicultural
              <=> ArgPreChange >= RulesBefore["min_required"]
        /\ ret.breakdown.indigenous_multicultural.pre_change_counted
              = Min(ArgPreChange, RulesBefore["max_counted"])
        /\ ret.breakdown.indigenous_multicultural.counted
              = Min(ArgPreChange, RulesBefore["max_counted"])
                + ArgYearlyPoints(Len(ArgYearly))

\* the old rule passes a record whose pre-cutover value exceeds the cap and
\* whose yearly entries hold points
C4_Witness ==
    /\ Evaluated
    /\ RenewalDay > 0 /\ RenewalDay <= CutoverDay
    /\ ArgPreChange > RulesBefore["max_counted"]
    /\ ArgYearlyPoints(Len(ArgYearly)) > 0
    /\ ret.passes.indigenous_multicultural

\* C5: each per-category flag is true iff that category's raw value >= its
\* configured minimum, and mandatory_total is true iff the four raw values
\* sum to at least 10; neither kind of flag depends on the other.
C5_MandatoryFlagsIndependent ==
    Evaluated =>
        /\ ret.passes.mandatory_fire
              <=> ArgMandatoryRaw("fire_safety")
                    >= RULES["mandatory_categories"]["fire_safety"]["min"]
        /\ ret.passes.mandatory_er
              <=> ArgMandatoryRaw("emergency_response")
                    >= RULES["mandatory_categories"]["emergency_response"]["min"]
        /\ ret.passes.mandatory_inf
              <=> ArgMandatoryRaw("infection_control")
                    >= RULES["mandatory_categories"]["infection_control"]["min"]
        /\ ret.passes.mandatory_gen
              <=> ArgMandatoryRaw("gender_sensitivity")
                    >= RULES["mandatory_categories"]["gender_sensitivity"]["min"]
        /\ ret.passes.mandatory_total
              <=> ArgMandatoryRaw("fire_safety") + ArgMandatoryRaw("emergency_response")
                    + ArgMandatoryRaw("infection_control")
                    + ArgMandatoryRaw("gender_sensitivity") >= 10

\* fire 0, er 4, inf 3, gen 3: the total passes while fire fails
C5_Witness ==
    /\ Evaluated
    /\ "mandatory" \in DOMAIN arg
    /\ arg["mandatory"] = [fire_safety |-> 0, emergency_response |-> 4,
                           infection_control |-> 3, gender_sensitivity |-> 3]
    /\ ret.passes.mandatory_total
    /\ ~ret.passes.mandatory_fire
    /\ ret.passes.mandatory_er /\ ret.passes.mandatory_inf /\ ret.passes.mandatory_gen

\* the record with the given renewal date
WithRenewalDate(record, date) == ("renewal_date" :> date) @@ record

\* the renewal dates that are calendar dates
ValidRenewalDates == {d \in RenewalDates : minguo_to_gregorian(d).type = "datetime"}

\* two results that agree on everything but the cultural verdict and notes
SameButCulturalVerdict(a, b) ==
    /\ a.type = "dict" /\ b.type = "dict"
    /\ a.breakdown = b.breakdown
    /\ a.total_counted = b.total_counted
    /\ \A flag \in DOMAIN a.passes \ {"indigenous_multicultural"} :
          a.passes[flag] = b.passes[flag]

\* C6: a missing or unparseable renewal date degrades only the cultural
\* verdict: the flag is false, the notes say the rule could not be
\* determined, and breakdown, total_counted and every other flag are what
\* the same record yields with any valid renewal date.
C6_UnresolvedDateDegradesOnlyCultural ==
    (op = "evaluate_points"
        /\ minguo_to_gregorian(Get(arg, "renewal_date", None)).type # "datetime") =>
        /\ ret.type = "dict"
        /\ ~ret.passes.indigenous_multicultural
        /\ ret.notes.rule = "undetermined"
        /\ \A d \in ValidRenewalDates :
              SameButCulturalVerdict(ret, evaluate_points(WithRenewalDate(arg, d)))

\* the fields read with a zero default
NumericFields ==
    {"professional_course", "quality_ethics_regulation", "quality_points_raw",
     "ethics_points_raw", "regulation_points_raw", "pre_change_cultural_points",
     "online_points"}

\* the record with every absent field (but the renewal date) written out as
\* zero or empty
Filled(record) ==
    [k \in NumericFields |-> Get(record, k, 0)]
    @@ [mandatory |->
            [k \in MandatoryKeys \cup DOMAIN Get(record, "mandatory", EmptyDict) |->
                Get(Get(record, "mandatory", EmptyDict), k, 0)],
        yearly_cultural_points |->
            [i \in 1..Len(Get(record, "yearly_cultural_points", <<>>)) |->
                [indigenous |-> Get(record["yearly_cultural_points"][i], "indigenous", 0),
                 multicultural |->
                    Get(record["yearly_cultural_points"][i], "multicultural", 0)]]]
    @@ record

\* C9: absent record fields never make evaluate_points raise and are read as
\* zero or empty; the record with no fields yields total_counted 0, every
\* numeric breakdown value 0, every flag with a positive minimum false, and
\* online_max true.
C9_AbsentFieldsAreZero ==
    op = "evaluate_points" =>
        /\ "renewal_date" \notin DOMAIN arg => ret.type = "dict"
        /\ LET filled == evaluate_points(Filled(arg))
           IN  filled.type = ret.type /\ filled = ret
        /\ arg = EmptyDict =>
              /\ ret.total_counted = 0
              /\ ret.breakdown.professional_course.raw = 0
              /\ ret.breakdown.quality_ethics_regulation = [raw |-> 0, counted |-> 0]
              /\ ret.breakdown.quality_raw = 0
              /\ ret.breakdown.ethics_raw = 0
              /\ ret.breakdown.regulation_raw = 0
              /\ \A key \in MandatoryKeys : ret.breakdown.mandatory[key].value = 0
              /\ ret.breakdown.mandatory_total_raw = 0
              /\ ret.breakdown.indigenous_multicultural =
                    [pre_change_raw |-> 0, pre_change_counted |-> 0,
                     yearly_total_raw |-> 0, counted |-> 0]
              /\ ret.breakdown.online_points_raw = 0
              /\ ret.breakdown.online_points_capped = 0
              /\ ret.breakdown.physical_points_derived = 0
              /\ RULES["totals"]["min_total_points"] > 0 => ~ret.passes.total
              /\ RULES["totals"]["min_professional_course"] > 0
                    => ~ret.passes.professional_min
              /\ RULES["totals"]["min_quality_ethics_regulation"] > 0
                    => ~ret.passes.qer_min
              /\ ~ret.passes.qer_each_non_zero
              /\ RULES["mandatory_categories"]["fire_safety"]["min"] > 0
                    => ~ret.passes.mandatory_fire /\ ~ret.passes.mandatory_each_min
              /\ RULES["mandatory_categories"]["emergency_response"]["min"] > 0
                    => ~ret.passes.mandatory_er
              /\ RULES["mandatory_categories"]["infection_control"]["min"] > 0
                    => ~ret.passes.mandatory_inf
              /\ RULES["mandatory_categories"]["gender_sensitivity"]["min"] > 0
                    => ~ret.passes.mandatory_gen
              /\ ~ret.passes.mandatory_total
              /\ ~ret.passes.indigenous_multicultural
              /\ RULES["totals"]["min_total_points"]
                    > RULES["totals"]["max_online_points"] => ~ret.passes.physical_min
              /\ ret.passes.online_max

\* the record with no fields set has been evaluated
C9_Witness == Evaluated /\ arg = EmptyDict

\* C10: when RULES lacks a field that evaluate_points or
\* compute_expiry_and_notice references, the call fails closed (no result,
\* or a result with the category failing) and raises nothing.
C10_AbsentRuleFieldFailsClosed ==
    (op \in {"evaluate_points", "compute_expiry_and_notice"}) =>
        ~(ret.type = "raised" /\ ret.error = "KeyError")

(***************************************************************************)
(* Properties of the date helpers                                          *)
(***************************************************************************)
\* C8: for a valid date and n >= 0 with date.year + n in range, add_years
\* returns a valid date of year date.year + n and the same month; the day is
\* unchanged, except that Feb 29 in a non-leap target year becomes Feb 28.
C8_AddYearsLeapSafe ==
    (op = "add_years" /\ arg.date.year + arg.years <= MAXYEAR) =>
        /\ ret.type = "datetime"
        /\ ret.year = arg.date.year + arg.years
        /\ ret.month = arg.date.month
        /\ ret.day >= 1 /\ ret.day <= DaysInMonth(ret.year, ret.month)
        /\ ret.day =
              IF arg.date.month = 2 /\ arg.date.day = 29
                    /\ ~IsLeap(arg.date.year + arg.years)
              THEN 28 ELSE arg.date.day

\* 2024-02-29 plus 1 year is 2025-02-28
C8_Witness ==
    /\ op = "add_years"
    /\ arg = [date |-> Date(2024, 2, 29), years |-> 1]
    /\ ret = Date(2025, 2, 28)

\* a str of exactly three dash-separated integer fields that name a day of
\* the calendar, the year being the first field + 1911
NamesADate(v) ==
    /\ v.type = "str"
    /\ LET parts == Split(v.chars, "-")
       IN  /\ Len(parts) = 3
           /\ \A i \in 1..3 : ParseInt(parts[i]).type = "int"
           /\ ParseInt(parts[1]).val <= MAXYEAR - EpochOffset
           /\ ParseInt(parts[2]).val \in 1..12
           /\ ParseInt(parts[3]).val >= 1
           /\ ParseInt(parts[3]).val
                <= DaysInMonth(ParseInt(parts[1]).val + EpochOffset, ParseInt(parts[2]).val)

\* C7: minguo_to_gregorian never raises; it returns the date (first field +
\* 1911, month, day) iff its argument is a str of three dash-separated
\* integer fields naming a real day, and None for every other argument.
C7_MinguoNeverRaises ==
    op = "minguo_to_gregorian" =>
        /\ ret.type # "raised"
        /\ NamesADate(arg) =>
              LET parts == Split(arg.chars, "-")
              IN  ret = Date(ParseInt(parts[1]).val + EpochOffset,
                             ParseInt(parts[2]).val, ParseInt(parts[3]).val)
        /\ ~NamesADate(arg) => ret = None

====
